---- MODULE Spec2Model ----
(***************************************************************************)
(* A model of client/web/src/tracking/eventLogger.ts: the EventLogger      *)
(* class (identity resolution at construction, the sliding device          *)
(* session, listeners and event emission) and the module-level             *)
(* browserExtensionMessageReceived stream.                                 *)
(*                                                                         *)
(* JavaScript runs each call to completion, so every public call is one    *)
(* action.  A method is an operator from a "world" record (the mutable     *)
(* state a call can touch) to the world it leaves, and, where the method   *)
(* returns something, a record [w |-> world, ret |-> value].               *)
(***************************************************************************)
EXTENDS Integers, Sequences, FiniteSets, TLC

(***************************************************************************)
(* Keys of the records (eventLogger.ts lines 17-26).                       *)
(***************************************************************************)
ANONYMOUS_USER_ID_KEY == "sourcegraphAnonymousUid"
COHORT_ID_KEY == "sourcegraphCohortId"
FIRST_SOURCE_URL_KEY == "sourcegraphSourceUrl"
LAST_SOURCE_URL_KEY == "sourcegraphRecentSourceUrl"
DEVICE_ID_KEY == "sourcegraphDeviceId"
DEVICE_SESSION_ID_KEY == "sourcegraphSessionId"
ORIGINAL_REFERRER_KEY == "originalReferrer"
MKTO_ORIGINAL_REFERRER_KEY == "_mkto_referrer"
SESSION_REFERRER_KEY == "sessionReferrer"
SESSION_FIRST_URL_KEY == "sessionFirstUrl"

\* Cookies written with deviceSessionCookieSettings (~30 minutes).
ShortLivedKeys == {DEVICE_SESSION_ID_KEY, SESSION_REFERRER_KEY, SESSION_FIRST_URL_KEY}

\* Cookies written with cookieSettings (365 days), and the Marketo cookie,
\* which this module only reads.
LongLivedKeys ==
    {ANONYMOUS_USER_ID_KEY, COHORT_ID_KEY, FIRST_SOURCE_URL_KEY, LAST_SOURCE_URL_KEY,
     DEVICE_ID_KEY, ORIGINAL_REFERRER_KEY, MKTO_ORIGINAL_REFERRER_KEY}

CookieKeys == LongLivedKeys \cup ShortLivedKeys

(***************************************************************************)
(* Values.  Every cookie value, field and label is a string; Undefined     *)
(* stands for JavaScript's undefined and null, "" is the empty string.     *)
(***************************************************************************)
Undefined == "undefined"

\* JavaScript truthiness of a string-or-undefined value.
Truthy(v) == v # Undefined /\ v # ""

\* a || b
Or(a, b) == IF Truthy(a) THEN a ELSE b

\* F applied to the value of v, v evaluated once: `const x = v; F(x)`.
Let(v, F(_)) == CHOOSE r \in {F(x) : x \in {v}} : TRUE

(***************************************************************************)
(* Bounds of the model.                                                    *)
(***************************************************************************)
\* The clock runs from 0 to MaxTime ticks.
MaxTime == 3

\* The device-session cookie's lifetime (expires: 0.0208 days, about 30
\* minutes) in ticks of the model's clock.
SessionTTL == 2

\* The EventLogger instances of one page load: 1 is the exported singleton
\* `eventLogger`, the others are further `new EventLogger()` calls.
Loggers == {1, 2}

\* The tokens uuid.v4() hands out, in order; a token is never handed out twice.
UuidPool == <<"uuid-1", "uuid-2", "uuid-3">>

\* Calendar days the system clock can show.  Day 1 is Monday 2021-01-04.
DateString ==
    <<"2021-01-04", "2021-01-05", "2021-01-06", "2021-01-07", "2021-01-08",
      "2021-01-09", "2021-01-10", "2021-01-11", "2021-01-12", "2021-01-13",
      "2021-01-14", "2021-01-15", "2021-01-16", "2021-01-17">>
Days == 1 .. Len(DateString)

\* Callbacks that callers register as listeners.
Callbacks == {"cb1", "cb2"}

\* How many registrations of one callback with one EventLogger can be
\* waiting for their unsubscribe closure to be called.
MaxRegistrations == 2

\* An expiry instant no run of MaxTime ticks reaches: what `expires: 365`
\* (days) amounts to on the model's clock.
BeyondHorizon == MaxTime + SessionTTL + 1

VARIABLES
    cookies,        \* document.cookie: [CookieKeys -> value or Undefined]
    expires,        \* expiry instant of each cookie (0 when the cookie is absent)
    localStorage,   \* localStorage[ANONYMOUS_USER_ID_KEY], Undefined when absent
    now,            \* the clock, in ticks
    date,           \* the calendar day `new Date()` shows, a day of Days
    context,        \* window.context: [userAgentIsBot, sourcegraphDotComMode]
    isSourcegraphDotComMode, \* the module constant of line 30
    location,       \* window.location.href: the query parameters of the page URL
    referrer,       \* document.referrer
    firefox,        \* what isFirefox() answers in this browser
    loggers,        \* the fields of each EventLogger instance
    stream,         \* browserExtensionMessageReceived: channels, replay buffer, subscribers
    received,       \* per EventLogger, the payloads its subscription callback ran with
    unsubscribes,   \* per EventLogger, the callbacks whose unsubscribe closure a caller holds
    removed,        \* per EventLogger, the callbacks unsubscribed since they were last added
    handles,        \* per EventLogger and callback, the registrations whose unsubscribe
                    \* closure was not called yet
    uuidCount,      \* how many tokens uuid.v4() has handed out
    first,          \* the anonymous id and device id resolved by the first construction
                    \* since the cookie was last cleared (Undefined before it)
    trace,          \* what the last call did, in order: renewals, listener calls, transport calls
    call,           \* the last call: [op, logger, arg]
    raised          \* whether the last call ended by throwing

vars ==
    <<cookies, expires, localStorage, now, date, context, isSourcegraphDotComMode,
      location, referrer, firefox, loggers, stream, received, unsubscribes, removed,
      handles, uuidCount, first, trace, call, raised>>

(***************************************************************************)
(* The world a call runs in, and the step that leaves world w behind.      *)
(***************************************************************************)
World ==
    [cookies |-> cookies, expires |-> expires, localStorage |-> localStorage,
     now |-> now, date |-> date, context |-> context,
     isSourcegraphDotComMode |-> isSourcegraphDotComMode,
     location |-> location, referrer |-> referrer, firefox |-> firefox,
     loggers |-> loggers,
     stream |-> stream, received |-> received, handles |-> handles,
     uuidCount |-> uuidCount, trace |-> <<>>, raised |-> FALSE]

Commit(w) ==
    /\ cookies' = w.cookies
    /\ expires' = w.expires
    /\ localStorage' = w.localStorage
    /\ now' = w.now
    /\ date' = w.date
    /\ context' = w.context
    /\ isSourcegraphDotComMode' = w.isSourcegraphDotComMode
    /\ location' = w.location
    /\ referrer' = w.referrer
    /\ firefox' = w.firefox
    /\ loggers' = w.loggers
    /\ stream' = w.stream
    /\ received' = w.received
    /\ handles' = w.handles
    /\ uuidCount' = w.uuidCount
    /\ trace' = w.trace
    /\ raised' = w.raised

(***************************************************************************)
(* js-cookie and localStorage.                                             *)
(***************************************************************************)
\* cookieSettings (lines 92-104) and deviceSessionCookieSettings (106-118).
\* 365 days are at least BeyondHorizon ticks.
cookieSettings == [expires |-> BeyondHorizon]
deviceSessionCookieSettings == [expires |-> SessionTTL]

Min(a, b) == IF a <= b THEN a ELSE b

\* cookies.get(key): the value of a cookie that has not expired.
cookiesGet(w, key) == w.cookies[key]

\* cookies.set(key, value, settings): writes the value and restarts the
\* cookie's lifetime from the current instant.  Instants past the horizon
\* are all recorded as BeyondHorizon.
cookiesSet(w, key, value, settings) ==
    [w EXCEPT !.cookies[key] = value,
              !.expires[key] = Min(w.now + settings.expires, BeyondHorizon)]

\* localStorage.getItem(ANONYMOUS_USER_ID_KEY)
localStorageGetItem(w) == w.localStorage

\* Mutant: the legacy key is left in place.
localStorageKept(w) == w

\* localStorage.removeItem(ANONYMOUS_USER_ID_KEY)
localStorageRemoveItem(w) == [w EXCEPT !.localStorage = Undefined]

\* The browser drops a cookie once its expiry instant is reached.
ExpireCookies(c, e, t) ==
    [k \in CookieKeys |-> IF c[k] # Undefined /\ e[k] <= t THEN Undefined ELSE c[k]]

ExpireTimes(c, e, t) ==
    [k \in CookieKeys |-> IF c[k] # Undefined /\ e[k] <= t THEN 0 ELSE e[k]]

(***************************************************************************)
(* Collaborators whose code is outside eventLogger.ts.                     *)
(***************************************************************************)
\* uuid.v4(): the next unused token.
uuidv4(w) == [w |-> [w EXCEPT !.uuidCount = @ + 1], ret |-> UuidPool[w.uuidCount + 1]]

\* getPreviousMonday(new Date()) of ./util: the date of the most recent
\* Monday on or before the given day, as a date string.
getPreviousMonday(day) == DateString[day - ((day - 1) % 7)]

\* The argument of a call that passes no properties.
NoArgs == [undefined |-> TRUE]

\* One entry of the trace of a call.
Entry(kind, logger, label, arg) ==
    [kind |-> kind, logger |-> logger, label |-> label, arg |-> arg]

Emit(w, e) == [w EXCEPT !.trace = Append(@, e)]

\* serverAdmin.trackAction(eventLabel, eventProperties, publicArgument)
trackAction(w, i, eventLabel, eventProperties) ==
    Emit(w, Entry("trackAction", i, eventLabel, eventProperties))

\* serverAdmin.trackPageView(eventName, logAsActiveUser, eventProperties)
trackPageView(w, i, eventName) ==
    Emit(w, Entry("trackPageView", i, eventName, NoArgs))

(***************************************************************************)
(* class EventLogger.                                                      *)
(***************************************************************************)
\* The field initialisers of lines 78-90 (eventID, which no other member
\* reads, is left out).  `constructed` records that the constructor ran.
NewLogger ==
    [constructed |-> FALSE,
     hasStrippedQueryParameters |-> FALSE,
     anonymousUserID |-> "",
     cohortID |-> Undefined,
     firstSourceURL |-> Undefined,
     lastSourceURL |-> Undefined,
     deviceID |-> "",
     deviceSessionID |-> Undefined,
     listeners |-> <<>>,
     originalReferrer |-> Undefined,
     sessionReferrer |-> Undefined,
     sessionFirstURL |-> Undefined]

SetField(w, i, f, v) == [w EXCEPT !.loggers[i][f] = v]

Ret(w, v) == [w |-> w, ret |-> v]

\* getAnonymousUserID (216-218)
getAnonymousUserID(w, i) == w.loggers[i].anonymousUserID

\* getCohortID (224-226)
getCohortID(w, i) == w.loggers[i].cohortID

\* getDeviceID (308-310)
getDeviceID(w, i) == w.loggers[i].deviceID

\* Mutant: the cookie is read before the cached value.
CachedAccessorCookieFirst(w, i, field, key, default, settings) ==
    IF ~w.isSourcegraphDotComMode THEN Ret(w, "")
    ELSE Let(Or(Or(cookiesGet(w, key), w.loggers[i][field]), default),
             LAMBDA v : Ret(cookiesSet(SetField(w, i, field, v), key, v, settings), v))

\* Mutant: the accessor does not look at the deployment's mode.
CachedAccessorAnyMode(w, i, field, key, default, settings) ==
    Let(Or(Or(w.loggers[i][field], cookiesGet(w, key)), default),
        LAMBDA v : Ret(cookiesSet(SetField(w, i, field, v), key, v, settings), v))

\* The pattern of getFirstSourceURL, getLastSourceURL, getSessionReferrer and
\* getSessionFirstURL: field || cookie || default, cached and written back.
CachedAccessor(w, i, field, key, default, settings) ==
    IF ~w.isSourcegraphDotComMode THEN Ret(w, "")
    ELSE Let(Or(Or(w.loggers[i][field], cookiesGet(w, key)), default),
             LAMBDA v : Ret(cookiesSet(SetField(w, i, field, v), key, v, settings), v))

\* window.location.href
Href(w) == w.location

\* getFirstSourceURL (228-237)
getFirstSourceURL(w, i) ==
    CachedAccessor(w, i, "firstSourceURL", FIRST_SOURCE_URL_KEY, Href(w), cookieSettings)

\* getLastSourceURL (239-251)
getLastSourceURL(w, i) ==
    CachedAccessor(w, i, "lastSourceURL", LAST_SOURCE_URL_KEY, Href(w), cookieSettings)

\* getOriginalReferrer (253-267)
getOriginalReferrer(w, i) ==
    CachedAccessor(w, i, "originalReferrer", ORIGINAL_REFERRER_KEY,
                   Or(cookiesGet(w, MKTO_ORIGINAL_REFERRER_KEY), w.referrer), cookieSettings)

\* getSessionReferrer (269-279)
getSessionReferrer(w, i) ==
    CachedAccessor(w, i, "sessionReferrer", SESSION_REFERRER_KEY, w.referrer,
                   deviceSessionCookieSettings)

\* getSessionFirstURL (281-290)
getSessionFirstURL(w, i) ==
    CachedAccessor(w, i, "sessionFirstURL", SESSION_FIRST_URL_KEY, Href(w),
                   deviceSessionCookieSettings)

\* Mutant: the cookie is written only when it does not hold the id yet, so
\* an existing cookie keeps its expiry.
getDeviceSessionIDNoRefresh(w, i) ==
    Let(Or(cookiesGet(w, DEVICE_SESSION_ID_KEY), w.loggers[i].deviceSessionID),
        LAMBDA fromStore :
            Let(IF ~Truthy(fromStore) \/ fromStore = ""
                THEN getAnonymousUserID(w, i) ELSE fromStore,
                LAMBDA deviceSessionID :
                    Ret(SetField(IF cookiesGet(w, DEVICE_SESSION_ID_KEY) = deviceSessionID
                                 THEN w
                                 ELSE cookiesSet(w, DEVICE_SESSION_ID_KEY, deviceSessionID,
                                                 deviceSessionCookieSettings),
                                 i, "deviceSessionID", deviceSessionID),
                        deviceSessionID)))

\* Mutant: a missing cookie is replaced by the anonymous id whatever id the
\* EventLogger holds.
getDeviceSessionIDCookieOnly(w, i) ==
    Let(cookiesGet(w, DEVICE_SESSION_ID_KEY),
        LAMBDA fromStore :
            Let(IF ~Truthy(fromStore) \/ fromStore = ""
                THEN getAnonymousUserID(w, i) ELSE fromStore,
                LAMBDA deviceSessionID :
                    Ret(SetField(cookiesSet(w, DEVICE_SESSION_ID_KEY, deviceSessionID,
                                            deviceSessionCookieSettings),
                                 i, "deviceSessionID", deviceSessionID),
                        deviceSessionID)))

\* getDeviceSessionID (292-304)
getDeviceSessionID(w, i) ==
    Let(Or(cookiesGet(w, DEVICE_SESSION_ID_KEY), w.loggers[i].deviceSessionID),
        LAMBDA fromStore :
            Let(IF ~Truthy(fromStore) \/ fromStore = ""
                THEN getAnonymousUserID(w, i) ELSE fromStore,
                LAMBDA deviceSessionID :
                    Ret(SetField(cookiesSet(w, DEVICE_SESSION_ID_KEY, deviceSessionID,
                                            deviceSessionCookieSettings),
                                 i, "deviceSessionID", deviceSessionID),
                        deviceSessionID)))

\* resetSessionCookieExpiration (346-354)
resetSessionCookieExpiration(w, i) ==
    Let(getDeviceSessionID(w, i),
        LAMBDA r : IF ~Truthy(r.ret) \/ r.ret = ""
                   THEN Ret(SetField(r.w, i, "deviceSessionID", r.ret), FALSE)
                   ELSE Ret(r.w, TRUE))

\* The renewal as a call records it in the trace: the id written to the
\* device-session cookie, what resetSessionCookieExpiration returned, and
\* the cookie and the cached id the renewal found.
Renew(w, i) ==
    Let(resetSessionCookieExpiration(w, i),
        LAMBDA r : Emit(r.w, Entry("renew", i, r.w.cookies[DEVICE_SESSION_ID_KEY],
                                   [ok |-> r.ret,
                                    found |-> cookiesGet(w, DEVICE_SESSION_ID_KEY),
                                    held |-> w.loggers[i].deviceSessionID])))

(***************************************************************************)
(* Page URLs.  A URL is a string; new URL(url).searchParams is read off    *)
(* the table of the model's URLs, and a rewritten URL is the string with   *)
(* the remaining parameters.  A parameter that is absent is Undefined      *)
(* (searchParams.get gives null).                                          *)
(***************************************************************************)
NoParams ==
    [signup |-> Undefined, signin |-> Undefined, utm_source |-> Undefined,
     utm_medium |-> Undefined, utm_campaign |-> Undefined, utm_term |-> Undefined,
     utm_content |-> Undefined]

\* The order in which the parameters stand in a URL of the model.
ParamOrder ==
    <<"signup", "signin", "utm_source", "utm_medium", "utm_campaign", "utm_term",
      "utm_content">>

\* The values each parameter takes in the model.
ParamValues ==
    [signup |-> {Undefined, "github"},
     signin |-> {Undefined, "gitlab"},
     utm_source |-> {Undefined, "saved-search-email", "saved-search-slack",
                     "code-monitoring-email", "hubspot", "safari-extension",
                     "firefox-extension", "chrome-extension", "phabricator-integration",
                     "bitbucket-integration", "gitlab-integration", "newsletter"},
     utm_medium |-> {Undefined, "VSCODE", "email"},
     utm_campaign |-> {Undefined, "cloud-onboarding-email", "cloud-onboarding-email-1",
                       "vsce-sign-up", "spring"},
     utm_term |-> {Undefined, "t"},
     utm_content |-> {Undefined}]

\* The parameter combinations of the model's URLs: every combination of
\* the UTM source, medium and campaign, and the sign-up / sign-in URLs with
\* and without a campaign source and term.
ParamSpace ==
    [signup : {Undefined}, signin : {Undefined},
     utm_source : ParamValues.utm_source, utm_medium : ParamValues.utm_medium,
     utm_campaign : ParamValues.utm_campaign, utm_term : {Undefined},
     utm_content : ParamValues.utm_content]
    \cup
    [signup : ParamValues.signup, signin : ParamValues.signin,
     utm_source : {Undefined, "saved-search-slack"}, utm_medium : {Undefined},
     utm_campaign : {Undefined}, utm_term : ParamValues.utm_term,
     utm_content : ParamValues.utm_content]

\* The query string of the parameters keys[n..]: "k=v" for each present
\* one, joined by "&" after a leading "?".
RECURSIVE Query(_, _, _)
Query(params, n, sep) ==
    IF n > Len(ParamOrder) THEN ""
    ELSE IF params[ParamOrder[n]] = Undefined THEN Query(params, n + 1, sep)
    ELSE sep \o ParamOrder[n] \o "=" \o params[ParamOrder[n]] \o Query(params, n + 1, "&")

\* The href of the URL with these parameters.
URLWith(params) == "https://sg.test/search" \o Query(params, 1, "?")

URLTable == [params \in ParamSpace |-> URLWith(params)]

URLs == {URLTable[params] : params \in ParamSpace}

ParamsOf == [url \in URLs |-> CHOOSE params \in ParamSpace : URLTable[params] = url]

\* new URL(url).searchParams
searchParams(url) == ParamsOf[url]

\* stripURLParameters(url, parametersToRemove) of ./util: deletes the
\* parameters from the URL and replaces the browser's history entry.
stripURLParameters(w, url, parametersToRemove) ==
    Let(searchParams(url),
        LAMBDA p :
            Let([k \in DOMAIN p |-> IF k \in parametersToRemove THEN Undefined ELSE p[k]],
                LAMBDA q : IF q = p THEN w ELSE [w EXCEPT !.location = URLWith(q)]))

(***************************************************************************)
(* Emission.                                                               *)
(***************************************************************************)
\* this.listeners.add(callback) on a Set: a callback already in the set
\* keeps its place.
SetAdd(ls, callback) ==
    IF \E n \in 1 .. Len(ls) : ls[n] = callback THEN ls ELSE Append(ls, callback)

\* Mutant: only the oldest registration can be deleted.
SetDeleteHead(ls, callback) ==
    IF ls # <<>> /\ Head(ls) = callback THEN Tail(ls) ELSE ls

\* this.listeners.delete(callback)
SetDelete(ls, callback) == SelectSeq(ls, LAMBDA c : c # callback)

\* addEventLogListener (422-425), the registration.
addEventLogListener(w, i, callback) ==
    SetField(w, i, "listeners", SetAdd(w.loggers[i].listeners, callback))

\* The closure addEventLogListener returns (424).
unsubscribe(w, i, callback) ==
    SetField(w, i, "listeners", SetDelete(w.loggers[i].listeners, callback))

\* The callbacks callers register.  cb1 and cb2 only take note of the
\* label.  Throwing throws.  Reentrant is a one-shot listener,
\*   eventName => { unsubscribe(); eventLogger.logPageView('Search') },
\* that first calls its own unsubscribe closure.
Throwing == "cbThrows"
Reentrant == "cbOnce"

\* No registration is waiting for its unsubscribe closure.
NoHandles == [i \in Loggers |-> [c \in Callbacks \cup {Throwing, Reentrant} |-> 0]]

\* addEventLogListener has returned one more unsubscribe closure (424).
Handed(w, i, callback) == [w EXCEPT !.handles[i][callback] = @ + 1]

\* The unsubscribe closure of one registration has been called.
Spent(w, i, callback) ==
    [w EXCEPT !.handles[i][callback] = IF @ > 0 THEN @ - 1 ELSE 0]

RECURSIVE log(_, _, _, _)
RECURSIVE logPageView(_, _, _)

\* listener(eventLabel) (196): the callback runs inside the emission.
Invoke(w, i, callback, eventLabel) ==
    Let(Emit(w, Entry("listener", i, eventLabel, [callback |-> callback])),
        LAMBDA w1 :
            IF callback = Throwing THEN [w1 EXCEPT !.raised = TRUE]
            ELSE IF callback = Reentrant
            THEN Let(Spent(unsubscribe(w1, i, callback), i, callback),
                     LAMBDA w2 : logPageView(w2, 1, "Search"))
            ELSE w1)

\* Mutant: the loop goes on to the next listener after one has thrown.
RECURSIVE NotifyListenersAll(_, _, _, _)
NotifyListenersAll(w, i, visited, eventLabel) ==
    Let(SelectSeq(w.loggers[i].listeners, LAMBDA c : c \notin visited),
        LAMBDA pending :
            IF pending = <<>> THEN w
            ELSE Let(Invoke(w, i, Head(pending), eventLabel),
                     LAMBDA w1 : NotifyListenersAll(w1, i, visited \cup {Head(pending)},
                                                    eventLabel)))

\* for (const listener of this.listeners) { listener(eventLabel) } (195-197):
\* the iteration of a Set is live and in insertion order, so the next
\* listener is the first one of the set as it is now that was not visited
\* yet; an exception ends the loop.
RECURSIVE NotifyListeners(_, _, _, _)
NotifyListeners(w, i, visited, eventLabel) ==
    IF w.raised THEN w
    ELSE Let(SelectSeq(w.loggers[i].listeners, LAMBDA c : c \notin visited),
             LAMBDA pending :
                IF pending = <<>> THEN w
                ELSE Let(Invoke(w, i, Head(pending), eventLabel),
                         LAMBDA w1 : NotifyListeners(w1, i, visited \cup {Head(pending)},
                                                     eventLabel)))

\* Mutant: the event is forwarded before the listeners hear of it.
logForwardFirst(w, i, eventLabel, eventProperties) ==
    Let(Renew(w, i),
        LAMBDA w1 :
            Let(IF w1.context.userAgentIsBot \/ ~Truthy(eventLabel)
                THEN w1
                ELSE trackAction(w1, i, eventLabel, eventProperties),
                LAMBDA w2 : NotifyListeners(w2, i, {}, eventLabel)))

\* Mutant: the bot / empty-label return comes before the listeners.
logGuardedFirst(w, i, eventLabel, eventProperties) ==
    Let(Renew(w, i),
        LAMBDA w1 :
            IF w1.context.userAgentIsBot \/ ~Truthy(eventLabel)
            THEN w1
            ELSE Let(NotifyListeners(w1, i, {}, eventLabel),
                     LAMBDA w2 : IF w2.raised THEN w2
                                 ELSE trackAction(w2, i, eventLabel, eventProperties)))

\* log (191-203)
log(w, i, eventLabel, eventProperties) ==
    Let(Renew(w, i),
        LAMBDA w1 :
            Let(NotifyListeners(w1, i, {}, eventLabel),
                LAMBDA w2 :
                    IF w2.raised \/ w2.context.userAgentIsBot \/ ~Truthy(eventLabel)
                    THEN w2
                    ELSE trackAction(w2, i, eventLabel, eventProperties)))

\* The six integration sources of lines 487-494.
IntegrationSources ==
    {"safari-extension", "firefox-extension", "chrome-extension",
     "phabricator-integration", "bitbucket-integration", "gitlab-integration"}

\* utmCampaign?.match(/^cloud-onboarding-email(.*)$/) over the campaigns of
\* the URL table.
MatchesOnboardingCampaign(utmCampaign) ==
    utmCampaign \in {"cloud-onboarding-email", "cloud-onboarding-email-1"}

\* The UTMMarker of lines 470-476.
utmProps(p) ==
    [utm_campaign |-> IF Truthy(p.utm_campaign) THEN p.utm_campaign ELSE Undefined,
     utm_source |-> IF Truthy(p.utm_source) THEN p.utm_source ELSE Undefined,
     utm_medium |-> IF Truthy(p.utm_medium) THEN p.utm_medium ELSE Undefined,
     utm_term |-> IF Truthy(p.utm_term) THEN p.utm_term ELSE Undefined,
     utm_content |-> IF Truthy(p.utm_content) THEN p.utm_content ELSE Undefined]

\* Mutant: the VS Code sign-up row is tried before the integration sources.
pageViewQueryParametersVSCodeFirst(w, url) ==
    Let(searchParams(url),
        LAMBDA p :
            IF p.utm_source = "saved-search-email"
            THEN log(w, 1, "SavedSearchEmailClicked", NoArgs)
            ELSE IF p.utm_source = "saved-search-slack"
            THEN log(w, 1, "SavedSearchSlackClicked", NoArgs)
            ELSE IF p.utm_source = "code-monitoring-email"
            THEN log(w, 1, "CodeMonitorEmailLinkClicked", NoArgs)
            ELSE IF p.utm_source = "hubspot" /\ MatchesOnboardingCampaign(p.utm_campaign)
            THEN log(w, 1, "UTMCampaignLinkClicked", utmProps(p))
            ELSE IF p.utm_medium = "VSCODE" /\ p.utm_campaign = "vsce-sign-up"
            THEN log(w, 1, "VSCODESignUpLinkClicked", utmProps(p))
            ELSE IF p.utm_source \in IntegrationSources
            THEN log(w, 1, "UTMCodeHostIntegration", utmProps(p))
            ELSE w)

\* pageViewQueryParameters (463-502): the UTM events go to the singleton
\* `eventLogger`, logger 1.
pageViewQueryParameters(w, url) ==
    Let(searchParams(url),
        LAMBDA p :
            IF p.utm_source = "saved-search-email"
            THEN log(w, 1, "SavedSearchEmailClicked", NoArgs)
            ELSE IF p.utm_source = "saved-search-slack"
            THEN log(w, 1, "SavedSearchSlackClicked", NoArgs)
            ELSE IF p.utm_source = "code-monitoring-email"
            THEN log(w, 1, "CodeMonitorEmailLinkClicked", NoArgs)
            ELSE IF p.utm_source = "hubspot" /\ MatchesOnboardingCampaign(p.utm_campaign)
            THEN log(w, 1, "UTMCampaignLinkClicked", utmProps(p))
            ELSE IF p.utm_source \in IntegrationSources
            THEN log(w, 1, "UTMCodeHostIntegration", utmProps(p))
            ELSE IF p.utm_medium = "VSCODE" /\ p.utm_campaign = "vsce-sign-up"
            THEN log(w, 1, "VSCODESignUpLinkClicked", utmProps(p))
            ELSE w)

\* Mutant: the sign-up and sign-in events are logged and the URL is left
\* as it is.
handleQueryEventsKeepURL(w, url) ==
    Let(searchParams(url),
        LAMBDA p :
            Let(IF p.signup # Undefined
                THEN log(w, 1, "web:auth:signUpCompleted", [serviceType |-> p.signup])
                ELSE w,
                LAMBDA w1 :
                    IF w1.raised THEN w1 ELSE
                    IF p.signin # Undefined
                    THEN log(w1, 1, "web:auth:signInCompleted", [serviceType |-> p.signin])
                    ELSE w1))

\* handleQueryEvents (445-458): the events go to logger 1.
handleQueryEvents(w, url) ==
    Let(searchParams(url),
        LAMBDA p :
            Let(IF p.signup # Undefined
                THEN log(w, 1, "web:auth:signUpCompleted", [serviceType |-> p.signup])
                ELSE w,
                LAMBDA w1 :
                    IF w1.raised THEN w1 ELSE
                    Let(IF p.signin # Undefined
                        THEN log(w1, 1, "web:auth:signInCompleted", [serviceType |-> p.signin])
                        ELSE w1,
                        LAMBDA w2 :
                            IF w2.raised THEN w2 ELSE
                            stripURLParameters(w2, url, {"utm_campaign", "utm_source",
                                                         "utm_medium", "signup", "signin"}))))

\* logViewEventInternal (135-145)
logViewEventInternal(w, i, eventName) ==
    Let(pageViewQueryParameters(w, Href(w)),
        LAMBDA w1 :
            IF w1.raised THEN w1 ELSE
            Let(trackPageView(w1, i, eventName),
                LAMBDA w2 :
                    IF ~w2.loggers[i].hasStrippedQueryParameters
                    THEN Let(handleQueryEvents(w2, Href(w2)),
                             LAMBDA w3 :
                                IF w3.raised THEN w3
                                ELSE SetField(w3, i, "hasStrippedQueryParameters", TRUE))
                    ELSE w2))

\* The event names `View${pageTitle}` and `${eventName}Viewed` over the
\* page names of the model.
ViewName(pageTitle) == IF pageTitle = "Search" THEN "ViewSearch" ELSE "ViewBlob"
ViewedName(eventName) == IF eventName = "Search" THEN "SearchViewed" ELSE "BlobViewed"

\* logViewEvent (153-162)
logViewEvent(w, i, pageTitle) ==
    Let(Renew(w, i),
        LAMBDA w1 : IF w1.context.userAgentIsBot \/ ~Truthy(pageTitle)
                    THEN w1
                    ELSE logViewEventInternal(w1, i, ViewName(pageTitle)))

\* Mutant: the bot / empty-name return comes before the renewal.
logPageViewGuardFirst(w, i, eventName) ==
    IF w.context.userAgentIsBot \/ ~Truthy(eventName)
    THEN w
    ELSE Let(Renew(w, i), LAMBDA w1 : logViewEventInternal(w1, i, ViewedName(eventName)))

\* logPageView (169-178)
logPageView(w, i, eventName) ==
    Let(Renew(w, i),
        LAMBDA w1 : IF w1.context.userAgentIsBot \/ ~Truthy(eventName)
                    THEN w1
                    ELSE logViewEventInternal(w1, i, ViewedName(eventName)))

(***************************************************************************)
(* browserExtensionMessageReceived (36-75): merge of the DOM-marker        *)
(* channel and the registration-event channel, multicast through a         *)
(* ReplaySubject of size 1 (publishReplay(1)) that is connected while it   *)
(* has subscribers (refCount()).                                           *)
(*   marker: "idle" before the source is subscribed, "polling", "done"     *)
(*   event:  "idle", "listening", "done"                                   *)
(*   buffer: the replay buffer, at most one payload                        *)
(*   status: "open", "complete" or "error" (the subject)                   *)
(*   observers: the subscribed EventLoggers, in subscription order         *)
(***************************************************************************)
NewStream ==
    [marker |-> "idle", event |-> "idle", buffer |-> <<>>, status |-> "open",
     observers |-> <<>>]

\* What the subscriber of EventLogger i does with an exception of its
\* callback: it does not reach the emitter; the subscriber unsubscribes and
\* the error is reported to the host asynchronously.
Reported(w, i) ==
    IF ~w.raised THEN w
    ELSE Emit([w EXCEPT !.raised = FALSE,
                        !.stream.observers = SelectSeq(@, LAMBDA o : o # i)],
              Entry("hostReportError", i, "BrowserExtensionConnectedToServer", NoArgs))

\* The subscription callback of the constructor (123-130).
OnMessage(w, i, payload) ==
    Let([w EXCEPT !.received[i] = Append(@, payload)],
        LAMBDA w1 :
            Let(log(w1, i, "BrowserExtensionConnectedToServer", payload),
                LAMBDA w2 : Reported(w2, i)))

RECURSIVE DeliverAll(_, _, _)
DeliverAll(w, obs, payload) ==
    IF obs = <<>> THEN w
    ELSE Let(OnMessage(w, Head(obs), payload),
             LAMBDA w1 : DeliverAll(w1, Tail(obs), payload))

\* The subject's next(payload): the payload replaces the replay buffer and
\* goes to every observer.
SubjectNext(w, payload) ==
    DeliverAll([w EXCEPT !.stream.buffer = <<payload>>], w.stream.observers, payload)

\* merge completes once both channels have completed; the subject then
\* completes and drops its observers.
CompleteIfBothDone(w) ==
    IF w.stream.marker = "done" /\ w.stream.event = "done" /\ w.stream.status = "open"
    THEN [w EXCEPT !.stream.status = "complete", !.stream.observers = <<>>]
    ELSE w

\* browserExtensionMessageReceived.subscribe(...) by EventLogger i: the
\* subject replays its buffer to the new subscriber at once; the first
\* subscriber connects the source.
Subscribe(w, i) ==
    Let(IF w.stream.buffer # <<>> THEN OnMessage(w, i, w.stream.buffer[1]) ELSE w,
        LAMBDA w1 :
            IF w1.stream.status # "open" THEN w1
            ELSE IF w1.stream.marker = "idle"
            THEN [w1 EXCEPT !.stream.observers = Append(@, i),
                            !.stream.marker = "polling", !.stream.event = "listening"]
            ELSE [w1 EXCEPT !.stream.observers = Append(@, i)])

\* Mutant: the legacy value is preferred to the cookie.
storedAnonymousUserIDLegacyFirst(w) ==
    Or(localStorageGetItem(w), cookiesGet(w, ANONYMOUS_USER_ID_KEY))

\* cookies.get(ANONYMOUS_USER_ID_KEY) || localStorage.getItem(ANONYMOUS_USER_ID_KEY) (367)
storedAnonymousUserID(w) ==
    Or(cookiesGet(w, ANONYMOUS_USER_ID_KEY), localStorageGetItem(w))

\* Mutant: the cohort id is only ever read from its cookie.
resolveCohortIDStoredOnly(w, found) == cookiesGet(w, COHORT_ID_KEY)

\* Mutant: a missing cohort id is computed for an identity that was found.
resolveCohortIDBackfill(w, found) ==
    IF ~Truthy(found) \/ ~Truthy(cookiesGet(w, COHORT_ID_KEY))
    THEN getPreviousMonday(w.date) ELSE cookiesGet(w, COHORT_ID_KEY)

\* The cohort id of lines 368-373: the stored one when an anonymous id was
\* found, the previous Monday when a new id is generated.
resolveCohortID(w, found) ==
    IF ~Truthy(found) THEN getPreviousMonday(w.date) ELSE cookiesGet(w, COHORT_ID_KEY)

\* Mutant: the device id always follows the anonymous id.
resolveDeviceIDAlwaysAnonymous(w, anonymousUserID) == anonymousUserID

\* The device id of lines 384-388.
resolveDeviceID(w, anonymousUserID) ==
    LET deviceID == cookiesGet(w, DEVICE_ID_KEY)
    IN IF ~Truthy(deviceID) \/ deviceID = "" THEN anonymousUserID ELSE deviceID

\* Lines 398-411: each of the three values is the cookie when it is set,
\* and what the accessor resolves otherwise.
CookieOrAccessor(w, key, r) == IF ~Truthy(cookiesGet(w, key)) THEN r ELSE Ret(w, cookiesGet(w, key))

\* Lines 369-373: the anonymous id and cohort id, with a new token when no
\* id was found.
resolveAnonymousIdentity(w, i) ==
    Let(storedAnonymousUserID(w),
        LAMBDA found :
            Let(IF ~Truthy(found) THEN uuidv4(w) ELSE Ret(w, found),
                LAMBDA r : [w |-> SetField(r.w, i, "deviceSessionID", ""),
                            anonymousUserID |-> r.ret,
                            cohortID |-> resolveCohortID(w, found)]))

\* Lines 375-396: the anonymous-id, cohort-id, device-id and device-session
\* cookies are written and the legacy key removed.
persistIdentity(w, i, anonymousUserID, cohortID) ==
    Let(localStorageRemoveItem(
            cookiesSet(w, ANONYMOUS_USER_ID_KEY, anonymousUserID, cookieSettings)),
        LAMBDA w1 :
    Let(IF Truthy(cohortID) THEN cookiesSet(w1, COHORT_ID_KEY, cohortID, cookieSettings) ELSE w1,
        LAMBDA w2 :
    Let(resolveDeviceID(w2, anonymousUserID),
        LAMBDA deviceID :
    Let(Or(cookiesGet(w2, DEVICE_SESSION_ID_KEY), w2.loggers[i].deviceSessionID),
        LAMBDA storedSession :
    Let(IF ~Truthy(storedSession) \/ storedSession = "" THEN anonymousUserID ELSE storedSession,
        LAMBDA deviceSessionID :
            [w |-> cookiesSet(cookiesSet(w2, DEVICE_ID_KEY, deviceID, cookieSettings),
                              DEVICE_SESSION_ID_KEY, deviceSessionID,
                              deviceSessionCookieSettings),
             deviceID |-> deviceID,
             deviceSessionID |-> deviceSessionID])))))

\* initializeLogParameters (366-420)
initializeLogParameters(w, i) ==
    Let(resolveAnonymousIdentity(w, i),
        LAMBDA a :
    Let(persistIdentity(a.w, i, a.anonymousUserID, a.cohortID),
        LAMBDA b :
    Let(CookieOrAccessor(b.w, ORIGINAL_REFERRER_KEY, getOriginalReferrer(b.w, i)),
        LAMBDA r5 :
    Let(CookieOrAccessor(r5.w, SESSION_REFERRER_KEY, getSessionReferrer(r5.w, i)),
        LAMBDA r6 :
    Let(CookieOrAccessor(r6.w, SESSION_FIRST_URL_KEY, getSessionFirstURL(r6.w, i)),
        LAMBDA r7 :
            [r7.w EXCEPT !.loggers[i].anonymousUserID = a.anonymousUserID,
                         !.loggers[i].cohortID = a.cohortID,
                         !.loggers[i].deviceID = b.deviceID,
                         !.loggers[i].deviceSessionID = b.deviceSessionID,
                         !.loggers[i].originalReferrer = r5.ret,
                         !.loggers[i].sessionReferrer = r6.ret,
                         !.loggers[i].sessionFirstURL = r7.ret])))))

\* Whether initializeLogParameters will ask uuid.v4() for a token.
NeedsUuid(w) == ~Truthy(storedAnonymousUserID(w))

\* constructor (120-133)
constructor(w, i) ==
    Let(Subscribe(w, i),
        LAMBDA w1 : Let(initializeLogParameters(w1, i),
                        LAMBDA w2 : SetField(w2, i, "constructed", TRUE)))

(***************************************************************************)
(* Actions: one per call into the module or event of its environment.      *)
(***************************************************************************)
Called(op, i, arg) == call' = [op |-> op, logger |-> i, arg |-> arg]

\* What `first` becomes when EventLogger i of world w has been constructed.
FirstAfter(w, i) ==
    [anon |-> IF first.anon = Undefined THEN w.loggers[i].anonymousUserID ELSE first.anon,
     device |-> IF first.device = Undefined THEN w.loggers[i].deviceID ELSE first.device]

\* The step that leaves behind the world the call `result` computes.
Run(result) == \E w \in {result} : Commit(w)

\* The page is loaded: the module is evaluated afresh over the persisted
\* cookies and localStorage, and line 428 constructs the singleton.
PageLoad(bot, dotcom, url, ref, ff) ==
    /\ NeedsUuid(World) => uuidCount < Len(UuidPool)
    /\ \E w0 \in {[World EXCEPT !.context = [userAgentIsBot |-> bot,
                                               sourcegraphDotComMode |-> dotcom],
                                 !.isSourcegraphDotComMode = dotcom,
                                 !.location = url,
                                 !.referrer = ref,
                                 !.firefox = ff,
                                 !.loggers = [i \in Loggers |-> NewLogger],
                                 !.stream = NewStream,
                                 !.handles = NoHandles,
                                 !.received = [i \in Loggers |-> <<>>]]} :
         \E w1 \in {constructor(w0, 1)} :
            /\ Commit(w1)
            /\ first' = FirstAfter(w1, 1)
    /\ unsubscribes' = [i \in Loggers |-> {}]
    /\ removed' = [i \in Loggers |-> {}]
    /\ Called("load", 1, url)

\* A further `new EventLogger()` in the loaded page.
Construct(i) ==
    /\ loggers[1].constructed /\ ~loggers[i].constructed
    /\ NeedsUuid(World) => uuidCount < Len(UuidPool)
    /\ \E w1 \in {constructor(World, i)} :
            /\ Commit(w1)
            /\ first' = FirstAfter(w1, i)
    /\ UNCHANGED <<unsubscribes, removed>>
    /\ Called("construct", i, "")

Log(i, eventLabel) ==
    /\ loggers[i].constructed
    /\ Run(log(World, i, eventLabel, NoArgs))
    /\ UNCHANGED <<unsubscribes, removed, first>>
    /\ Called("log", i, eventLabel)

LogPageView(i, eventName) ==
    /\ loggers[i].constructed
    /\ Run(logPageView(World, i, eventName))
    /\ UNCHANGED <<unsubscribes, removed, first>>
    /\ Called("logPageView", i, eventName)

LogViewEvent(i, pageTitle) ==
    /\ loggers[i].constructed
    /\ Run(logViewEvent(World, i, pageTitle))
    /\ UNCHANGED <<unsubscribes, removed, first>>
    /\ Called("logViewEvent", i, pageTitle)

\* A caller registers a callback and keeps the closure it gets back.
Register(i, callback) ==
    /\ loggers[i].constructed
    /\ Run(Handed(addEventLogListener(World, i, callback), i, callback))
    /\ unsubscribes' = [unsubscribes EXCEPT ![i] = @ \cup {callback}]
    /\ removed' = [removed EXCEPT ![i] = @ \ {callback}]
    /\ UNCHANGED first
    /\ Called("addEventLogListener", i, callback)

\* addEventLogListener with a callback none of whose registrations is
\* waiting for its unsubscribe closure.
AddEventLogListener(i, callback) ==
    /\ handles[i][callback] = 0
    /\ Register(i, callback)

\* addEventLogListener with a callback that is registered already.
AddEventLogListenerAgain(i, callback) ==
    /\ handles[i][callback] \in 1 .. MaxRegistrations - 1
    /\ Register(i, callback)

\* A caller runs an unsubscribe closure it holds; the call is recorded as
\* "unsubscribeAgain" when the closure of this callback has run before and
\* the callback was not registered again since.
Unsubscribe(i, callback) ==
    /\ callback \in unsubscribes[i]
    /\ Run(IF callback \in removed[i]
           THEN unsubscribe(World, i, callback)
           ELSE Spent(unsubscribe(World, i, callback), i, callback))
    /\ removed' = [removed EXCEPT ![i] = @ \cup {callback}]
    /\ UNCHANGED <<unsubscribes, first>>
    /\ Called(IF callback \in removed[i] THEN "unsubscribeAgain" ELSE "unsubscribe",
              i, callback)

\* What a caller of an accessor gets back, recorded in the trace with the
\* cached value and the cookie the accessor found.
Returned(w, i, field, key, r) ==
    Emit(r.w, Entry("return", i, r.ret,
                    [cached |-> w.loggers[i][field], cookie |-> cookiesGet(w, key)]))

\* The attribution accessors called from outside (the transport reads them
\* when it builds an event).
GetFirstSourceURL(i) ==
    /\ loggers[i].constructed
    /\ Run(Returned(World, i, "firstSourceURL", FIRST_SOURCE_URL_KEY, getFirstSourceURL(World, i)))
    /\ UNCHANGED <<unsubscribes, removed, first>>
    /\ Called("getFirstSourceURL", i, "")

GetLastSourceURL(i) ==
    /\ loggers[i].constructed
    /\ Run(Returned(World, i, "lastSourceURL", LAST_SOURCE_URL_KEY, getLastSourceURL(World, i)))
    /\ UNCHANGED <<unsubscribes, removed, first>>
    /\ Called("getLastSourceURL", i, "")

GetOriginalReferrer(i) ==
    /\ loggers[i].constructed
    /\ Run(Returned(World, i, "originalReferrer", ORIGINAL_REFERRER_KEY, getOriginalReferrer(World, i)))
    /\ UNCHANGED <<unsubscribes, removed, first>>
    /\ Called("getOriginalReferrer", i, "")

GetSessionReferrer(i) ==
    /\ loggers[i].constructed
    /\ Run(Returned(World, i, "sessionReferrer", SESSION_REFERRER_KEY, getSessionReferrer(World, i)))
    /\ UNCHANGED <<unsubscribes, removed, first>>
    /\ Called("getSessionReferrer", i, "")

GetSessionFirstURL(i) ==
    /\ loggers[i].constructed
    /\ Run(Returned(World, i, "sessionFirstURL", SESSION_FIRST_URL_KEY, getSessionFirstURL(World, i)))
    /\ UNCHANGED <<unsubscribes, removed, first>>
    /\ Called("getSessionFirstURL", i, "")

\* A cooperating script outside this module (the tag manager of lines
\* 240-241, a page of another subdomain) writes a cookie.
ExternalWrite(key, value) ==
    /\ cookies[key] # value
    /\ Run(cookiesSet(World, key, value, cookieSettings))
    /\ UNCHANGED <<unsubscribes, removed, first>>
    /\ Called("externalWrite", 0, key)

\* A caller that registered the callback more than once runs the closure
\* of a registration other than the one unsubscribed before.
UnsubscribeOther(i, callback) ==
    /\ callback \in removed[i]
    /\ handles[i][callback] > 0
    /\ Run(Spent(unsubscribe(World, i, callback), i, callback))
    /\ UNCHANGED <<unsubscribes, removed, first>>
    /\ Called("unsubscribe", i, callback)

\* getDeviceSessionID called from outside (the transport reads it).
GetDeviceSessionID(i) ==
    /\ loggers[i].constructed
    /\ Run(Returned(World, i, "deviceSessionID", DEVICE_SESSION_ID_KEY, getDeviceSessionID(World, i)))
    /\ UNCHANGED <<unsubscribes, removed, first>>
    /\ Called("getDeviceSessionID", i, "")

\* Time passes; cookies whose expiry instant is reached are gone.
Tick ==
    /\ now < MaxTime
    /\ Run([World EXCEPT !.now = now + 1,
                         !.cookies = ExpireCookies(cookies, expires, now + 1),
                         !.expires = ExpireTimes(cookies, expires, now + 1)])
    /\ UNCHANGED <<unsubscribes, removed, first>>
    /\ Called("tick", 0, "")

\* The store clears one cookie (the user deletes it).
ClearCookie(key) ==
    /\ cookies[key] # Undefined
    /\ Run([World EXCEPT !.cookies[key] = Undefined, !.expires[key] = 0])
    /\ first' = [anon |-> IF key = ANONYMOUS_USER_ID_KEY THEN Undefined ELSE first.anon,
                 device |-> IF key = DEVICE_ID_KEY THEN Undefined ELSE first.device]
    /\ UNCHANGED <<unsubscribes, removed>>
    /\ Called("clearCookie", 0, key)

\* The channel of the DOM marker completes.
MarkerDone(w) == CompleteIfBothDone([w EXCEPT !.stream.marker = "done"])

\* The channel of the registration event completes.
EventDone(w) == CompleteIfBothDone([w EXCEPT !.stream.event = "done"])

\* The poll of observeQuerySelector finds the marker element: the channel
\* emits its dataset and completes.
MarkerFound(payload) ==
    /\ stream.marker = "polling"
    /\ \E w1 \in {SubjectNext(World, payload)} : Run(MarkerDone(w1))
    /\ UNCHANGED <<unsubscribes, removed, first>>
    /\ Called("markerFound", 0, "")

\* The poll times out: the error is swallowed (catchError(() => EMPTY)) and
\* the channel completes without a value.
MarkerTimeout ==
    /\ stream.marker = "polling"
    /\ Run(MarkerDone(World))
    /\ UNCHANGED <<unsubscribes, removed, first>>
    /\ Called("markerTimeout", 0, "")

PermissionDenied == "Permission denied to access property \"platform\""

Sentinel ==
    [platform |-> "firefox-extension",
     version |-> "unknown due to <<Permission denied to access property \"platform\">>"]

\* What stands before and after a phrase in the error messages of the model.
Affixes == {"", "Error: ", " on cross-origin object"}

\* message.includes(phrase) over the messages of the model.
Includes(message, phrase) ==
    \E before \in Affixes, after \in Affixes : message = before \o phrase \o after

\* Mutant: the sentinel is returned in every browser.
ReadDetailAnyBrowser(w, detail) ==
    IF detail.kind = "ok" THEN [ok |-> TRUE, payload |-> detail.payload]
    ELSE IF Includes(detail.message, PermissionDenied)
    THEN [ok |-> TRUE, payload |-> Sentinel]
    ELSE [ok |-> FALSE, message |-> detail.message]

\* The map of lines 51-69 applied to the event's detail: a payload, or the
\* error it throws.  A detail is [kind |-> "ok", payload |-> p] or
\* [kind |-> "throws", message |-> m].
ReadDetail(w, detail) ==
    IF detail.kind = "ok" THEN [ok |-> TRUE, payload |-> detail.payload]
    ELSE IF w.firefox /\ Includes(detail.message, PermissionDenied)
    THEN [ok |-> TRUE, payload |-> Sentinel]
    ELSE [ok |-> FALSE, message |-> detail.message]

\* The document dispatches 'sourcegraph:browser-extension-registration':
\* take(1) lets the first event through and completes the channel; an
\* error of the map ends the merged stream and the subject with it.
RegistrationEvent(detail) ==
    /\ stream.event = "listening"
    /\ \E r \in {ReadDetail(World, detail)} :
          IF r.ok
          THEN \E w1 \in {SubjectNext(World, r.payload)} : Run(EventDone(w1))
          ELSE Run([World EXCEPT !.stream.event = "done", !.stream.marker = "done",
                                 !.stream.status = "error", !.stream.observers = <<>>,
                                 !.raised = TRUE])
    /\ UNCHANGED <<unsubscribes, removed, first>>
    /\ Called("registrationEvent", 0, IF detail.kind = "ok" THEN "" ELSE detail.message)

(***************************************************************************)
(* The browser before the page is loaded: persisted storage only.          *)
(***************************************************************************)
NoCookies == [k \in CookieKeys |-> Undefined]

\* The state with the given anonymous-id, cohort-id, device-id and
\* device-session cookies, legacy localStorage value and calendar day.
Before(anon, cohort, device, session, legacy, day) ==
    /\ cookies = [NoCookies EXCEPT ![ANONYMOUS_USER_ID_KEY] = anon,
                                   ![COHORT_ID_KEY] = cohort,
                                   ![DEVICE_ID_KEY] = device,
                                   ![DEVICE_SESSION_ID_KEY] = session]
    /\ expires = [k \in CookieKeys |->
                    IF cookies[k] = Undefined THEN 0
                    ELSE IF k \in ShortLivedKeys THEN 1 ELSE BeyondHorizon]
    /\ localStorage = legacy
    /\ now = 0
    /\ date = day
    /\ context = [userAgentIsBot |-> FALSE, sourcegraphDotComMode |-> FALSE]
    /\ isSourcegraphDotComMode = FALSE
    /\ location = "https://sg.test/search"
    /\ referrer = ""
    /\ firefox = FALSE
    /\ loggers = [i \in Loggers |-> NewLogger]
    /\ stream = NewStream
    /\ received = [i \in Loggers |-> <<>>]
    /\ unsubscribes = [i \in Loggers |-> {}]
    /\ removed = [i \in Loggers |-> {}]
    /\ handles = NoHandles
    /\ uuidCount = 0
    /\ first = [anon |-> Undefined, device |-> Undefined]
    /\ trace = <<>>
    /\ call = [op |-> "none", logger |-> 0, arg |-> ""]
    /\ raised = FALSE

Payload1 == [platform |-> "chrome-extension", version |-> "23.1"]
Payload2 == [platform |-> "firefox-extension", version |-> "23.2"]

PlainURL == "https://sg.test/search"
CampaignURL == "https://sg.test/search?signup=github&utm_source=saved-search-slack&utm_term=t"

(***************************************************************************)
(* Spec: identity resolution over page loads, on every combination of      *)
(* persisted anonymous-id, cohort-id, device-id and session cookies and    *)
(* legacy localStorage value.                                              *)
(***************************************************************************)
Init ==
    \E anon \in {Undefined, "anon-cookie"}, cohort \in {Undefined, "2020-12-28"},
       device \in {Undefined, "", "device-cookie"},
       session \in {Undefined, "session-cookie"},
       legacy \in {Undefined, "anon-legacy"}, day \in {7, 8, 10} :
        Before(anon, cohort, device, session, legacy, day)

Next ==
    \/ PageLoad(FALSE, FALSE, PlainURL, "", FALSE)
    \/ \E i \in Loggers : Construct(i)
    \/ \E i \in Loggers : Log(i, "ButtonClicked")
    \/ \E key \in {ANONYMOUS_USER_ID_KEY, DEVICE_ID_KEY} : ClearCookie(key)
    \/ MarkerFound(Payload1)

Spec == Init /\ [][Next]_vars

(***************************************************************************)
(* SpecSession: the sliding device session under a running clock.          *)
(***************************************************************************)
InitSession ==
    \E anon \in {Undefined, "anon-cookie"}, session \in {Undefined, "session-cookie"} :
        Before(anon, Undefined, Undefined, session, Undefined, 8)

NextSession ==
    \/ \E bot \in BOOLEAN : PageLoad(bot, FALSE, PlainURL, "", FALSE)
    \/ \E i \in Loggers : Construct(i)
    \/ \E i \in Loggers, eventLabel \in {"", "ButtonClicked"} : Log(i, eventLabel)
    \/ \E i \in Loggers, eventName \in {"", "Search"} : LogPageView(i, eventName)
    \/ \E i \in Loggers, pageTitle \in {"", "Search"} : LogViewEvent(i, pageTitle)
    \/ \E i \in Loggers : GetDeviceSessionID(i)
    \/ Tick
    \/ MarkerFound(Payload1)

SpecSession == InitSession /\ [][NextSession]_vars

(***************************************************************************)
(* SpecHub: listeners and emission.                                        *)
(***************************************************************************)
InitHub == Before(Undefined, Undefined, Undefined, Undefined, Undefined, 8)

NextHub ==
    \/ \E bot \in BOOLEAN, url \in {PlainURL, CampaignURL} : PageLoad(bot, FALSE, url, "", FALSE)
    \/ \E i \in Loggers : Construct(i)
    \/ \E i \in Loggers, eventLabel \in {"", "ButtonClicked"} : Log(i, eventLabel)
    \/ \E i \in Loggers, eventName \in {"", "Search"} : LogPageView(i, eventName)
    \/ \E i \in Loggers, pageTitle \in {"", "Search"} : LogViewEvent(i, pageTitle)
    \/ \E i \in Loggers, callback \in Callbacks : AddEventLogListener(i, callback)
    \/ \E i \in Loggers, callback \in Callbacks : Unsubscribe(i, callback)

SpecHub == InitHub /\ [][NextHub]_vars

(***************************************************************************)
(* SpecPresence: the two channels of browserExtensionMessageReceived and   *)
(* EventLoggers subscribing before and after detection.                    *)
(***************************************************************************)
Details ==
    {[kind |-> "ok", payload |-> Payload1], [kind |-> "ok", payload |-> Payload2],
     [kind |-> "throws", message |-> "Error: " \o PermissionDenied],
     [kind |-> "throws", message |-> "detail is not an object"]}

InitPresence ==
    \E anon \in {Undefined, "anon-cookie"} :
        Before(anon, Undefined, Undefined, Undefined, Undefined, 8)

NextPresence ==
    \/ \E ff \in BOOLEAN : PageLoad(FALSE, FALSE, PlainURL, "", ff)
    \/ \E i \in Loggers : Construct(i)
    \/ \E payload \in {Payload1, Payload2} : MarkerFound(payload)
    \/ MarkerTimeout
    \/ \E detail \in Details : RegistrationEvent(detail)
    \/ Tick

SpecPresence == InitPresence /\ [][NextPresence]_vars

(***************************************************************************)
(* SpecLatch: page views on sign-up URLs, with a listener that logs a page *)
(* view of its own.                                                        *)
(***************************************************************************)
SignupURL == "https://sg.test/search?signup=github"

InitLatch == Before(Undefined, Undefined, Undefined, Undefined, Undefined, 8)

NextLatch ==
    \/ \E bot \in BOOLEAN, url \in {PlainURL, SignupURL, CampaignURL} :
            PageLoad(bot, FALSE, url, "", FALSE)
    \/ \E i \in Loggers : Construct(i)
    \/ \E i \in Loggers : Log(i, "ButtonClicked")
    \/ \E i \in Loggers, eventName \in {"", "Search"} : LogPageView(i, eventName)
    \/ \E i \in Loggers : LogViewEvent(i, "Search")
    \/ \E i \in Loggers, callback \in {"cb1", Reentrant} : AddEventLogListener(i, callback)

SpecLatch == InitLatch /\ [][NextLatch]_vars

(***************************************************************************)
(* SpecAttribution: the accessors of the session and attribution fields   *)
(* in sourcegraphDotComMode, while other scripts write the same cookies.   *)
(***************************************************************************)
ExternalURL == "https://about.sg.test/"
ExternalSession == "other-session"
Referrer == "https://ref.test/"

InitAttribution == Before("anon-cookie", Undefined, Undefined, Undefined, Undefined, 8)

NextAttribution ==
    \/ PageLoad(FALSE, TRUE, PlainURL, Referrer, FALSE)
    \/ GetFirstSourceURL(1)
    \/ GetLastSourceURL(1)
    \/ GetOriginalReferrer(1)
    \/ GetSessionReferrer(1)
    \/ GetSessionFirstURL(1)
    \/ GetDeviceSessionID(1)
    \/ \E key \in {LAST_SOURCE_URL_KEY, MKTO_ORIGINAL_REFERRER_KEY} :
            ExternalWrite(key, ExternalURL)
    \/ ExternalWrite(DEVICE_SESSION_ID_KEY, ExternalSession)
    \/ Tick

SpecAttribution == InitAttribution /\ [][NextAttribution]_vars

(***************************************************************************)
(* SpecPrivate: the same accessors and the emissions on a deployment that  *)
(* is not in sourcegraphDotComMode.                                        *)
(***************************************************************************)
InitPrivate == Before("anon-cookie", Undefined, Undefined, Undefined, Undefined, 8)

NextPrivate ==
    \/ PageLoad(FALSE, FALSE, PlainURL, Referrer, FALSE)
    \/ Construct(2)
    \/ \E i \in Loggers : GetFirstSourceURL(i)
    \/ \E i \in Loggers : GetLastSourceURL(i)
    \/ \E i \in Loggers : GetOriginalReferrer(i)
    \/ \E i \in Loggers : GetSessionReferrer(i)
    \/ \E i \in Loggers : GetSessionFirstURL(i)
    \/ \E i \in Loggers : Log(i, "ButtonClicked")
    \/ \E i \in Loggers : LogPageView(i, "Search")
    \/ \E key \in {LAST_SOURCE_URL_KEY, SESSION_REFERRER_KEY, MKTO_ORIGINAL_REFERRER_KEY} :
            ExternalWrite(key, ExternalURL)
    \/ Tick

SpecPrivate == InitPrivate /\ [][NextPrivate]_vars

(***************************************************************************)
(* SpecThrow: emissions while one of the registered listeners throws.      *)
(***************************************************************************)
InitThrow == Before(Undefined, Undefined, Undefined, Undefined, Undefined, 8)

NextThrow ==
    \/ PageLoad(FALSE, FALSE, PlainURL, "", FALSE)
    \/ \E eventLabel \in {"", "ButtonClicked"} : Log(1, eventLabel)
    \/ \E callback \in Callbacks \cup {Throwing} : AddEventLogListener(1, callback)
    \/ \E callback \in Callbacks \cup {Throwing} : Unsubscribe(1, callback)
    \/ Tick

SpecThrow == InitThrow /\ [][NextThrow]_vars

(***************************************************************************)
(* SpecRegistry: callbacks registered more than once with the singleton.   *)
(***************************************************************************)
InitRegistry == Before(Undefined, Undefined, Undefined, Undefined, Undefined, 8)

NextRegistry ==
    \/ PageLoad(FALSE, FALSE, PlainURL, "", FALSE)
    \/ \E callback \in Callbacks : AddEventLogListener(1, callback)
    \/ \E callback \in Callbacks : AddEventLogListenerAgain(1, callback)
    \/ \E callback \in Callbacks : Unsubscribe(1, callback)
    \/ \E callback \in Callbacks : UnsubscribeOther(1, callback)
    \/ \E eventLabel \in {"", "ButtonClicked"} : Log(1, eventLabel)
    \/ Tick

SpecRegistry == InitRegistry /\ [][NextRegistry]_vars

(***************************************************************************)
(* SpecCampaign: page views on every combination of utm_source, utm_medium *)
(* and utm_campaign.                                                       *)
(***************************************************************************)
UtmURLs ==
    {URLWith(params) :
        params \in {q \in ParamSpace : q.signup = Undefined /\ q.signin = Undefined
                                          /\ q.utm_term = Undefined}}

InitCampaign == Before(Undefined, Undefined, Undefined, Undefined, Undefined, 8)

NextCampaign ==
    \/ \E url \in UtmURLs : PageLoad(FALSE, FALSE, url, "", FALSE)
    \/ LogPageView(1, "Search")
    \/ LogViewEvent(1, "Search")

SpecCampaign == InitCampaign /\ [][NextCampaign]_vars

(***************************************************************************)
(* Properties.                                                             *)
(***************************************************************************)
\* The step constructs EventLogger i (the page load constructs logger 1).
ConstructStep(i) == call'.op \in {"load", "construct"} /\ call'.logger = i

\* The step hands out a token of uuid.v4().
GeneratesId == uuidCount' = uuidCount + 1

\* The date of the most recent Monday on or before the day (day 1 is a
\* Monday, so Mondays are the days 1, 8, ...).
MostRecentMonday(day) ==
    DateString[CHOOSE m \in Days : m % 7 = 1 /\ m <= day /\ day - m < 7]

\* C1: every construction over the same storage resolves the anonymous id
\* the first one resolved, as long as the anonymous-id cookie is not cleared:
\* a token is generated exactly when both the cookie and the legacy
\* localStorage key are absent, the cookie is used when it is present, and
\* the legacy value only when the cookie is absent.
AnonymousIdStable ==
    [][\A i \in Loggers : ConstructStep(i) =>
          /\ first.anon # Undefined => loggers'[i].anonymousUserID = first.anon
          /\ GeneratesId <=> (cookies[ANONYMOUS_USER_ID_KEY] = Undefined
                               /\ localStorage = Undefined)
          /\ ~GeneratesId => uuidCount' = uuidCount
          /\ GeneratesId => loggers'[i].anonymousUserID = UuidPool[uuidCount']
          /\ cookies[ANONYMOUS_USER_ID_KEY] # Undefined
                => loggers'[i].anonymousUserID = cookies[ANONYMOUS_USER_ID_KEY]
          /\ cookies[ANONYMOUS_USER_ID_KEY] = Undefined /\ localStorage # Undefined
                => loggers'[i].anonymousUserID = localStorage]_vars

\* A second EventLogger has resolved the id the first load migrated from
\* localStorage.
AnonymousIdKept ==
    /\ call.op = "construct"
    /\ first.anon = "anon-legacy"
    /\ loggers[1].anonymousUserID = "anon-legacy"
    /\ loggers[2].anonymousUserID = "anon-legacy"

\* C2: a construction that finds no anonymous-id cookie, no legacy value and
\* no device-id cookie leaves a newly generated non-empty anonymous id, the
\* date of the most recent Monday on or before the current day as cohort id,
\* the anonymous id as device id, and the three cookies holding these values.
FreshIdentityOnEmptyStorage ==
    [][\A i \in Loggers :
          (/\ ConstructStep(i)
           /\ cookies[ANONYMOUS_USER_ID_KEY] = Undefined
           /\ localStorage = Undefined
           /\ cookies[DEVICE_ID_KEY] = Undefined)
          => /\ Truthy(loggers'[i].anonymousUserID)
             /\ GeneratesId
             /\ loggers'[i].anonymousUserID = UuidPool[uuidCount']
             /\ loggers'[i].anonymousUserID \notin {UuidPool[n] : n \in 1 .. uuidCount}
             /\ loggers'[i].anonymousUserID \notin {cookies[k] : k \in CookieKeys}
             /\ loggers'[i].cohortID = MostRecentMonday(date)
             /\ loggers'[i].deviceID = loggers'[i].anonymousUserID
             /\ cookies'[ANONYMOUS_USER_ID_KEY] = loggers'[i].anonymousUserID
             /\ cookies'[COHORT_ID_KEY] = MostRecentMonday(date)
             /\ cookies'[DEVICE_ID_KEY] = loggers'[i].anonymousUserID]_vars

\* A load on a Wednesday has generated an id, with the Monday of that week
\* as cohort and the id as device id.
FreshIdentityResolved ==
    /\ call.op = "load"
    /\ date = 10
    /\ uuidCount = 1
    /\ loggers[1].anonymousUserID = "uuid-1"
    /\ loggers[1].cohortID = "2021-01-11"
    /\ loggers[1].deviceID = "uuid-1"
    /\ cookies[DEVICE_ID_KEY] = "uuid-1"
    /\ cookies[COHORT_ID_KEY] = "2021-01-11"

\* C3: a construction that finds an anonymous id (in the cookie or in
\* localStorage) and no cohort-id cookie leaves the cohort id undefined and
\* writes no cohort-id cookie; the cohort-id cookie gets a new value, and an
\* EventLogger a cohort id that was not stored, only in a construction that
\* generates an anonymous id.
CohortNeverBackfilled ==
    [][/\ \A i \in Loggers :
            (/\ ConstructStep(i)
             /\ (cookies[ANONYMOUS_USER_ID_KEY] # Undefined \/ localStorage # Undefined)
             /\ cookies[COHORT_ID_KEY] = Undefined)
            => /\ loggers'[i].cohortID = Undefined
               /\ cookies'[COHORT_ID_KEY] = Undefined
       /\ \A i \in Loggers :
            (ConstructStep(i) /\ loggers'[i].cohortID \notin {Undefined, cookies[COHORT_ID_KEY]})
            => GeneratesId
       /\ cookies'[COHORT_ID_KEY] \notin {Undefined, cookies[COHORT_ID_KEY]}
            => GeneratesId /\ \E i \in Loggers : ConstructStep(i)]_vars

\* Two EventLoggers were constructed over an anonymous id without a cohort:
\* neither has a cohort id and there is no cohort-id cookie.
CohortStillMissing ==
    /\ call.op = "construct"
    /\ uuidCount = 0
    /\ Truthy(loggers[2].anonymousUserID)
    /\ loggers[1].cohortID = Undefined
    /\ loggers[2].cohortID = Undefined
    /\ cookies[COHORT_ID_KEY] = Undefined

\* C4: every construction leaves the legacy localStorage key absent, and the
\* anonymous-id cookie holding the legacy value when the id was only there;
\* once absent the legacy key stays absent, so no later construction reads it.
LegacyMigratedOnce ==
    [][/\ \A i \in Loggers : ConstructStep(i) =>
            /\ localStorage' = Undefined
            /\ (cookies[ANONYMOUS_USER_ID_KEY] = Undefined /\ localStorage # Undefined)
                  => /\ cookies'[ANONYMOUS_USER_ID_KEY] = localStorage
                     /\ loggers'[i].anonymousUserID = localStorage
       /\ localStorage = Undefined => localStorage' = Undefined]_vars

\* A load has moved the legacy id into the cookie.
LegacyMigrated ==
    /\ call.op = "load"
    /\ cookies[ANONYMOUS_USER_ID_KEY] = "anon-legacy"
    /\ loggers[1].anonymousUserID = "anon-legacy"
    /\ localStorage = Undefined

\* C5: a construction resolves the device id to the device-id cookie when
\* that cookie is present and non-empty and to the anonymous id otherwise,
\* and writes it to the cookie; so while the device-id cookie is not cleared
\* every construction resolves the device id of the first one.
DeviceIdKept ==
    [][\A i \in Loggers : ConstructStep(i) =>
          /\ loggers'[i].deviceID =
                IF cookies[DEVICE_ID_KEY] # Undefined /\ cookies[DEVICE_ID_KEY] # ""
                THEN cookies[DEVICE_ID_KEY] ELSE loggers'[i].anonymousUserID
          /\ cookies'[DEVICE_ID_KEY] = loggers'[i].deviceID
          /\ first.device # Undefined => loggers'[i].deviceID = first.device]_vars

\* A later load resolved another anonymous id and kept the device id of the
\* first load.
DeviceIdOutlivesAnonymousId ==
    /\ call.op = "load"
    /\ first.device = "uuid-1"
    /\ loggers[1].deviceID = "uuid-1"
    /\ loggers[1].anonymousUserID = "uuid-2"

\* C6: every renewal writes the device-session cookie with expiry = the
\* instant of the call + SessionTTL, which is after that instant and not
\* before the expiry the cookie had; every log, logPageView and logViewEvent
\* call starts with a renewal; and a renewal by a constructed EventLogger
\* obtains a non-empty id and returns true.
SessionRenewalMonotonic ==
    [][/\ \A n \in 1 .. Len(trace') : trace'[n].kind = "renew" =>
            /\ cookies'[DEVICE_SESSION_ID_KEY] # Undefined
            /\ expires'[DEVICE_SESSION_ID_KEY] = now' + SessionTTL
            /\ expires'[DEVICE_SESSION_ID_KEY] > now'
            /\ expires'[DEVICE_SESSION_ID_KEY] >= expires[DEVICE_SESSION_ID_KEY]
       /\ call'.op \in {"log", "logPageView", "logViewEvent"} =>
            /\ Len(trace') >= 1
            /\ trace'[1].kind = "renew"
            /\ trace'[1].logger = call'.logger
       /\ \A n \in 1 .. Len(trace') :
            (/\ trace'[n].kind = "renew"
             /\ call'.op # "load"
             /\ loggers[trace'[n].logger].constructed)
            => trace'[n].arg.ok /\ Truthy(trace'[n].label)]_vars

\* A call has renewed a session that an earlier instant had started.
SessionRenewedLater ==
    /\ call.op = "log"
    /\ now = 1
    /\ loggers[call.logger].deviceSessionID = "session-cookie"
    /\ cookies[DEVICE_SESSION_ID_KEY] = "session-cookie"
    /\ expires[DEVICE_SESSION_ID_KEY] = now + SessionTTL

\* The positions of the trace at which listener cb of EventLogger i heard
\* the label.
Heard(i, cb, label) ==
    {n \in 1 .. Len(trace) :
        /\ trace[n].kind = "listener"
        /\ trace[n].logger = i
        /\ trace[n].label = label
        /\ trace[n].arg.callback = cb}

\* The positions of the trace at which EventLogger i renewed the session.
Renewed(i) ==
    {n \in 1 .. Len(trace) : trace[n].kind = "renew" /\ trace[n].logger = i}

\* The callbacks registered with EventLogger i.
Registered(i) == {loggers[i].listeners[m] : m \in 1 .. Len(loggers[i].listeners)}

\* Before position n of the trace EventLogger i renewed the session and
\* then every listener registered with it heard the label.
NotifiedBefore(n, i, label) ==
    /\ \E r \in Renewed(i) : r < n
    /\ \A cb \in Registered(i) :
          \E k \in Heard(i, cb, label) :
              k < n /\ \E r \in Renewed(i) : r < k

BotLogOnlyNotifies ==
    (call.op = "log" /\ (context.userAgentIsBot \/ call.arg = ""))
    => /\ \A n \in 1 .. Len(trace) : trace[n].kind \notin {"trackAction", "trackPageView"}
       /\ \A cb \in Registered(call.logger) :
             Cardinality(Heard(call.logger, cb, call.arg)) = 1
       /\ \A n \in 1 .. Len(trace) :
             trace[n].kind = "listener"
             => /\ trace[n].logger = call.logger
                /\ trace[n].label = call.arg
                /\ trace[n].arg.callback \in Registered(call.logger)

\* A bot's log call with two registered listeners.
BotLogHeard ==
    /\ call.op = "log"
    /\ call.arg = "ButtonClicked"
    /\ context.userAgentIsBot
    /\ Len(loggers[call.logger].listeners) = 2
    /\ Len(trace) = 3

\* C9: a callback whose unsubscribe closure has run (and that was not
\* registered again) is invoked by no later emission; the closure never
\* raises and leaves the callback unregistered, and a further call of it
\* leaves the listeners of every EventLogger unchanged.
UnsubscribedListenerSilent ==
    [][/\ \A n \in 1 .. Len(trace') :
            trace'[n].kind = "listener"
            => trace'[n].arg.callback \notin removed'[trace'[n].logger]
       /\ call'.op \in {"unsubscribe", "unsubscribeAgain"}
            => /\ ~raised'
               /\ \A m \in 1 .. Len(loggers'[call'.logger].listeners) :
                     loggers'[call'.logger].listeners[m] # call'.arg
               /\ \A i \in Loggers \ {call'.logger} :
                     loggers'[i].listeners = loggers[i].listeners
               /\ \A m \in 1 .. Len(loggers[call'.logger].listeners) :
                     loggers[call'.logger].listeners[m] # call'.arg
                     => \E k \in 1 .. Len(loggers'[call'.logger].listeners) :
                           loggers'[call'.logger].listeners[k]
                             = loggers[call'.logger].listeners[m]
       /\ call'.op = "unsubscribeAgain"
            => \A i \in Loggers : loggers'[i].listeners = loggers[i].listeners]_vars

\* The closure of cb1 was called a second time, after a log call that the
\* other listener heard.
UnsubscribedTwice ==
    /\ call.op = "unsubscribeAgain"
    /\ call.arg = "cb1"
    /\ call.logger = 1
    /\ "cb1" \in removed[1]
    /\ loggers[1].listeners = <<"cb2">>

\* C10 as stated: once a payload was detected, every constructed EventLogger
\* (each subscribes in its constructor) has received exactly one payload, and
\* all have received the same.
PresenceDeliveredOnce ==
    \A i, j \in Loggers :
        (stream.buffer # <<>> /\ loggers[i].constructed /\ loggers[j].constructed)
        => Len(received[i]) = 1 /\ received[i] = received[j]

\* The marker was found and then the registration event arrived: the
\* EventLogger that subscribed first received both payloads, the one
\* constructed afterwards only the replayed second.
PresenceDeliveredTwice ==
    /\ loggers[1].constructed /\ loggers[2].constructed
    /\ received[1] = <<Payload1, Payload2>>
    /\ received[2] = <<Payload2>>

\* The positions of a trace at which the event was forwarded by trackAction.
Forwarded(tr, label) ==
    {n \in 1 .. Len(tr) : tr[n].kind = "trackAction" /\ tr[n].label = label}

\* C11 as stated: a call emits 'web:auth:signUpCompleted' at most once, and
\* only from a URL that has the signup parameter, which the call strips; the
\* first page view that is forwarded on such a URL emits it exactly once,
\* with the parameter's value as serviceType; no call on a URL without the
\* parameter emits a sign-up or sign-in event; and the latch of an
\* EventLogger, once true, stays true until the page is loaded again.
SignupEmittedOnce ==
    [][call'.op # "load" =>
        /\ Cardinality(Forwarded(trace', "web:auth:signUpCompleted")) <= 1
        /\ \A n \in Forwarded(trace', "web:auth:signUpCompleted") :
              /\ searchParams(location).signup # Undefined
              /\ trace'[n].arg = [serviceType |-> searchParams(location).signup]
              /\ searchParams(location').signup = Undefined
        /\ (/\ call'.op \in {"logPageView", "logViewEvent"}
            /\ ~context.userAgentIsBot
            /\ call'.arg # ""
            /\ searchParams(location).signup # Undefined)
           => Cardinality(Forwarded(trace', "web:auth:signUpCompleted")) = 1
        /\ searchParams(location).signup = Undefined
           => Forwarded(trace', "web:auth:signUpCompleted") = {}
        /\ searchParams(location).signin = Undefined
           => Forwarded(trace', "web:auth:signInCompleted") = {}
        /\ \A i \in Loggers :
              loggers[i].hasStrippedQueryParameters
              => loggers'[i].hasStrippedQueryParameters]_vars

\* One page view has forwarded the sign-up event twice.
SignupEmittedTwice ==
    /\ call.op = "logPageView"
    /\ Cardinality(Forwarded(trace, "web:auth:signUpCompleted")) = 2

\* The rows of the UTM table, in order: the event of a row and whether
\* the parameters match it.
UtmEvents ==
    <<"SavedSearchEmailClicked", "SavedSearchSlackClicked", "CodeMonitorEmailLinkClicked",
      "UTMCampaignLinkClicked", "UTMCodeHostIntegration", "VSCODESignUpLinkClicked">>

UtmRowMatches(n, p) ==
    CASE n = 1 -> p.utm_source = "saved-search-email"
      [] n = 2 -> p.utm_source = "saved-search-slack"
      [] n = 3 -> p.utm_source = "code-monitoring-email"
      [] n = 4 -> /\ p.utm_source = "hubspot"
                  /\ p.utm_campaign \in {"cloud-onboarding-email", "cloud-onboarding-email-1"}
      [] n = 5 -> p.utm_source \in {"safari-extension", "firefox-extension",
                                    "chrome-extension", "phabricator-integration",
                                    "bitbucket-integration", "gitlab-integration"}
      [] n = 6 -> p.utm_medium = "VSCODE" /\ p.utm_campaign = "vsce-sign-up"

\* The rows that match and have no matching row before them.
FirstUtmRows(p) ==
    {n \in 1 .. Len(UtmEvents) :
        UtmRowMatches(n, p) /\ \A m \in 1 .. n - 1 : ~UtmRowMatches(m, p)}

\* The UTM-mapped events a trace forwards, in order.
UtmForwarded(tr) ==
    SelectSeq(tr, LAMBDA e : e.kind = "trackAction"
                             /\ \E n \in 1 .. Len(UtmEvents) : e.label = UtmEvents[n])

FirstDeliveryWins ==
    [][/\ (call'.op \in {"markerFound", "registrationEvent"} /\ stream.buffer # <<>>)
            => stream'.buffer = stream.buffer /\ received' = received
       /\ call'.op # "load" => \A i \in Loggers : Len(received'[i]) <= 1]_vars

\* The registration event arrived after the marker was found: it replaced
\* the replayed payload and reached the subscribed EventLogger.
SecondDeliveryReplaced ==
    /\ call.op = "registrationEvent"
    /\ stream.buffer = <<Payload2>>
    /\ received[1] = <<Payload1, Payload2>>
    /\ ~loggers[2].constructed

\* The call is made in a bot context or with an empty label or name.
Suppressed == context.userAgentIsBot \/ call'.arg = ""

\* The positions of a trace at which an event is forwarded to the transport.
Forwards(tr) == {n \in 1 .. Len(tr) : tr[n].kind \in {"trackAction", "trackPageView"}}

\* C14 as stated: a logPageView or logViewEvent call in a bot context or
\* with an empty name leaves the device-session cookie, its expiry and the
\* cached deviceSessionID as they were and forwards nothing, while a log
\* call in the same situation renews the session.
PageViewSkipsRenewal ==
    [][/\ (call'.op \in {"logPageView", "logViewEvent"} /\ Suppressed)
            => /\ cookies'[DEVICE_SESSION_ID_KEY] = cookies[DEVICE_SESSION_ID_KEY]
               /\ expires'[DEVICE_SESSION_ID_KEY] = expires[DEVICE_SESSION_ID_KEY]
               /\ loggers'[call'.logger].deviceSessionID
                     = loggers[call'.logger].deviceSessionID
               /\ Forwards(trace') = {}
       /\ (call'.op = "log" /\ Suppressed)
            => Len(trace') >= 1 /\ trace'[1].kind = "renew"]_vars

\* C14, amended: a logPageView or logViewEvent call in a bot context or with
\* an empty name renews the session as log does (the device-session cookie
\* is written with the resolved id and expiry = call instant + SessionTTL,
\* and the id is cached) and does nothing else: nothing is forwarded and no
\* listener is notified.  A log call in the same situation renews the
\* session too and forwards nothing.
SuppressedPageViewRenews ==
    [][/\ (call'.op \in {"logPageView", "logViewEvent"} /\ Suppressed)
            => /\ Len(trace') = 1
               /\ trace'[1].kind = "renew"
               /\ trace'[1].logger = call'.logger
               /\ Truthy(cookies'[DEVICE_SESSION_ID_KEY])
               /\ cookies'[DEVICE_SESSION_ID_KEY] = loggers'[call'.logger].deviceSessionID
               /\ expires'[DEVICE_SESSION_ID_KEY] = now' + SessionTTL
       /\ (call'.op = "log" /\ Suppressed)
            => /\ Len(trace') >= 1
               /\ trace'[1].kind = "renew"
               /\ expires'[DEVICE_SESSION_ID_KEY] = now' + SessionTTL
               /\ Forwards(trace') = {}]_vars

\* A bot's page view at instant 2 has written the device-session cookie
\* with a new expiry.
BotPageViewRenewed ==
    /\ call.op = "logPageView"
    /\ call.arg = "Search"
    /\ context.userAgentIsBot
    /\ now = 2
    /\ expires[DEVICE_SESSION_ID_KEY] = now + SessionTTL
    /\ Len(trace) = 1

\* The step is a call of EventLogger i that resolves the session id once:
\* getDeviceSessionID itself, or an emission that starts with the renewal.
ResolvesSession(i) ==
    /\ call'.logger = i
    /\ call'.op \in {"getDeviceSessionID", "log", "logPageView", "logViewEvent"}
    /\ loggers[i].constructed

\* C15 as stated: when the device-session cookie is missing as
\* getDeviceSessionID or a renewal runs, the id written to the cookie and
\* cached is the anonymous id, whatever id the EventLogger held.
ExpiredSessionTakesAnonymousId ==
    [][\A i \in Loggers :
         (ResolvesSession(i) /\ ~Truthy(cookies[DEVICE_SESSION_ID_KEY]))
         => /\ cookies'[DEVICE_SESSION_ID_KEY] = loggers'[i].anonymousUserID
            /\ loggers'[i].deviceSessionID = loggers'[i].anonymousUserID]_vars

\* C15, amended: when the device-session cookie is missing as
\* getDeviceSessionID or a renewal runs, the id written to the cookie and
\* cached is the id the EventLogger holds in memory if that is non-empty,
\* and the anonymous id only otherwise; the cookie's expiry is the call
\* instant + SessionTTL.  When the cookie is missing at a page load, the
\* singleton, which holds no id yet, takes the anonymous id.
ExpiredSessionKeepsHeldId ==
    [][/\ \A i \in Loggers :
            (ResolvesSession(i) /\ ~Truthy(cookies[DEVICE_SESSION_ID_KEY]))
            => /\ cookies'[DEVICE_SESSION_ID_KEY]
                    = (IF Truthy(loggers[i].deviceSessionID) /\ loggers[i].deviceSessionID # ""
                       THEN loggers[i].deviceSessionID
                       ELSE loggers'[i].anonymousUserID)
               /\ loggers'[i].deviceSessionID = cookies'[DEVICE_SESSION_ID_KEY]
               /\ expires'[DEVICE_SESSION_ID_KEY] = now' + SessionTTL
       /\ (call'.op = "load" /\ ~Truthy(cookies[DEVICE_SESSION_ID_KEY]))
            => /\ cookies'[DEVICE_SESSION_ID_KEY] = loggers'[1].anonymousUserID
               /\ loggers'[1].deviceSessionID = loggers'[1].anonymousUserID]_vars

\* A log call found the device-session cookie expired and wrote back the
\* id the EventLogger held, which is not the anonymous id.
HeldIdOutlivedCookie ==
    /\ call.op = "log"
    /\ call.logger = 1
    /\ trace # <<>>
    /\ trace[1].kind = "renew"
    /\ ~Truthy(trace[1].arg.found)
    /\ trace[1].arg.held = "session-cookie"
    /\ cookies[DEVICE_SESSION_ID_KEY] = "session-cookie"
    /\ loggers[1].anonymousUserID = "anon-cookie"

\* The five accessors of the attribution and session fields: the field
\* that caches the value, the cookie behind it and the cookie's lifetime.
Accessors ==
    [getFirstSourceURL |-> [field |-> "firstSourceURL", key |-> FIRST_SOURCE_URL_KEY,
                            expires |-> cookieSettings.expires],
     getLastSourceURL |-> [field |-> "lastSourceURL", key |-> LAST_SOURCE_URL_KEY,
                           expires |-> cookieSettings.expires],
     getOriginalReferrer |-> [field |-> "originalReferrer", key |-> ORIGINAL_REFERRER_KEY,
                              expires |-> cookieSettings.expires],
     getSessionReferrer |-> [field |-> "sessionReferrer", key |-> SESSION_REFERRER_KEY,
                             expires |-> deviceSessionCookieSettings.expires],
     getSessionFirstURL |-> [field |-> "sessionFirstURL", key |-> SESSION_FIRST_URL_KEY,
                             expires |-> deviceSessionCookieSettings.expires]]

\* The default of an accessor in the current state.
DefaultOf(op) ==
    IF op = "getOriginalReferrer" THEN Or(cookies[MKTO_ORIGINAL_REFERRER_KEY], referrer)
    ELSE IF op = "getSessionReferrer" THEN referrer
    ELSE location

\* The step returned v, cached it in the field and wrote it to the cookie
\* with a lifetime counted from the call.
Resolved(i, field, key, lifetime, v) ==
    /\ Len(trace') = 1
    /\ trace'[1].kind = "return"
    /\ trace'[1].label = v
    /\ loggers'[i][field] = v
    /\ cookies'[key] = v
    /\ expires'[key] = Min(now' + lifetime, BeyondHorizon)

\* The five accessors resolve cached value, then cookie, then default.
FiveResolveCachedFirst ==
    \A op \in DOMAIN Accessors :
        (call'.op = op /\ isSourcegraphDotComMode)
        => Resolved(call'.logger, Accessors[op].field, Accessors[op].key,
                    Accessors[op].expires,
                    Or(Or(loggers[call'.logger][Accessors[op].field],
                          cookies[Accessors[op].key]),
                       DefaultOf(op)))

\* C16 as stated: all six accessors resolve the cached value first, then
\* the cookie, then the default (for getDeviceSessionID the anonymous id),
\* cache the result and write it to the cookie; the five attribution
\* accessors are taken in sourcegraphDotComMode.
SixResolveCachedFirst ==
    [][/\ FiveResolveCachedFirst
       /\ call'.op = "getDeviceSessionID"
            => Resolved(call'.logger, "deviceSessionID", DEVICE_SESSION_ID_KEY, SessionTTL,
                        Or(Or(loggers[call'.logger].deviceSessionID,
                              cookies[DEVICE_SESSION_ID_KEY]),
                           loggers[call'.logger].anonymousUserID))]_vars

\* C16, amended: in sourcegraphDotComMode the five attribution accessors
\* resolve the cached value, then the cookie, then the default, cache the
\* result and write it to the cookie; getDeviceSessionID resolves the
\* cookie first, then the cached value, then the anonymous id, and caches
\* and writes the result.  When the cached value and the cookie differ,
\* the five return and write the cached value and getDeviceSessionID
\* returns and writes the cookie's.
SessionResolvesCookieFirst ==
    [][/\ FiveResolveCachedFirst
       /\ call'.op = "getDeviceSessionID"
            => Resolved(call'.logger, "deviceSessionID", DEVICE_SESSION_ID_KEY, SessionTTL,
                        Or(Or(cookies[DEVICE_SESSION_ID_KEY],
                              loggers[call'.logger].deviceSessionID),
                           loggers[call'.logger].anonymousUserID))]_vars

\* getDeviceSessionID found a cookie that differs from the cached id and
\* returned the cookie's value.
SessionCookieWonOverCache ==
    /\ call.op = "getDeviceSessionID"
    /\ trace[1].arg.cached = "anon-cookie"
    /\ trace[1].arg.cookie = ExternalSession
    /\ trace[1].label = ExternalSession
    /\ loggers[1].deviceSessionID = ExternalSession

\* C17 as stated: a getLastSourceURL call that finds the last-source-URL
\* cookie set (by this module or by an external writer since the previous
\* call) returns the cookie's value and leaves that value in the cookie.
LastSourceRereadsCookie ==
    [][(/\ call'.op = "getLastSourceURL"
        /\ isSourcegraphDotComMode
        /\ Truthy(cookies[LAST_SOURCE_URL_KEY]))
       => /\ trace'[1].label = cookies[LAST_SOURCE_URL_KEY]
          /\ cookies'[LAST_SOURCE_URL_KEY] = cookies[LAST_SOURCE_URL_KEY]]_vars

\* A getLastSourceURL call found the cookie an external writer had set and
\* replaced it with the URL the EventLogger had cached.
ExternalLastSourceOverwritten ==
    /\ call.op = "getLastSourceURL"
    /\ trace[1].arg.cached = PlainURL
    /\ trace[1].arg.cookie = ExternalURL
    /\ trace[1].label = PlainURL
    /\ cookies[LAST_SOURCE_URL_KEY] = PlainURL

\* The cookies behind the five attribution and session accessors.
AttributionKeys == {Accessors[op].key : op \in DOMAIN Accessors}

\* C18: when the deployment is not in sourcegraphDotComMode, each of the
\* five accessors returns the empty string and changes neither a cookie
\* nor the EventLogger, and no step of the module (page load and
\* construction, emission, accessor call) changes the first-source,
\* last-source, original-referrer, session-referrer or session-first-URL
\* cookie or its expiry.
AttributionDisabled ==
    [][~isSourcegraphDotComMode' =>
        /\ call'.op \in DOMAIN Accessors
             => /\ Len(trace') = 1
                /\ trace'[1].kind = "return"
                /\ trace'[1].label = ""
                /\ cookies' = cookies
                /\ expires' = expires
                /\ loggers' = loggers
        /\ call'.op \notin {"externalWrite", "tick"}
             => \A key \in AttributionKeys :
                    cookies'[key] = cookies[key] /\ expires'[key] = expires[key]]_vars

\* Outside sourcegraphDotComMode getLastSourceURL returned '' although the
\* last-source-URL cookie holds a URL, and cached nothing.
DisabledAccessorReturnedEmpty ==
    /\ ~isSourcegraphDotComMode
    /\ call.op = "getLastSourceURL"
    /\ trace[1].label = ""
    /\ trace[1].arg.cookie = ExternalURL
    /\ cookies[LAST_SOURCE_URL_KEY] = ExternalURL
    /\ loggers[call.logger].lastSourceURL = Undefined

\* The listeners of a sequence up to and including the first occurrence of
\* callback c.
RECURSIVE UpTo(_, _)
UpTo(listeners, c) ==
    IF listeners = <<>> THEN <<>>
    ELSE IF Head(listeners) = c THEN <<c>>
    ELSE <<Head(listeners)>> \o UpTo(Tail(listeners), c)

\* The callbacks a trace shows to have been invoked, in order.
Invoked(tr) ==
    LET heard == SelectSeq(tr, LAMBDA e : e.kind = "listener")
    IN  [n \in 1 .. Len(heard) |-> heard[n].arg.callback]

\* C19: when a registered listener throws during log(label), the call ends
\* by throwing: the listeners invoked are those registered before the
\* throwing one and the throwing one itself, in order; the listeners
\* registered after it are not invoked, nothing is forwarded to
\* serverAdmin.trackAction, and the renewal made at the start of the call
\* stays (the device-session cookie is set and expires at call instant +
\* SessionTTL).  A log call whose listeners do not throw does not throw.
ListenerThrowPropagates ==
    [][call'.op = "log" =>
        LET listeners == loggers[call'.logger].listeners
            throws == \E n \in 1 .. Len(listeners) : listeners[n] = Throwing
        IN  /\ raised' = throws
            /\ throws =>
                 /\ Invoked(trace') = UpTo(listeners, Throwing)
                 /\ Forwards(trace') = {}
                 /\ trace'[1].kind = "renew"
                 /\ Len(trace') = 1 + Len(UpTo(listeners, Throwing))
                 /\ Truthy(cookies'[DEVICE_SESSION_ID_KEY])
                 /\ loggers'[call'.logger].deviceSessionID = cookies'[DEVICE_SESSION_ID_KEY]
                 /\ expires'[DEVICE_SESSION_ID_KEY] = now' + SessionTTL
                 /\ loggers'[call'.logger].listeners = listeners]_vars

\* A log call at instant 1 ended by throwing in the second of three
\* listeners: the third was not invoked, nothing was forwarded and the
\* session cookie carries the renewed expiry.
ThrownInSecondListener ==
    /\ raised
    /\ call = [op |-> "log", logger |-> 1, arg |-> "ButtonClicked"]
    /\ loggers[1].listeners = <<"cb1", Throwing, "cb2">>
    /\ Invoked(trace) = <<"cb1", Throwing>>
    /\ Forwards(trace) = {}
    /\ now = 1
    /\ expires[DEVICE_SESSION_ID_KEY] = now + SessionTTL

\* C20 as stated: every callback with a registration whose unsubscribe
\* closure was not called yet is invoked by a log emission, also when
\* the closure of another registration of the same callback was called.
EveryLiveRegistrationNotified ==
    [][call'.op = "log" =>
        \A callback \in Callbacks :
            handles[call'.logger][callback] > 0
            => \E n \in 1 .. Len(trace') :
                  /\ trace'[n].kind = "listener"
                  /\ trace'[n].logger = call'.logger
                  /\ trace'[n].arg.callback = callback]_vars

\* cb1 was registered twice and one of the two closures was called: the
\* other registration is still waiting for its closure, and a log call
\* forwarded the event without invoking cb1.
LiveRegistrationNotNotified ==
    /\ call = [op |-> "log", logger |-> 1, arg |-> "ButtonClicked"]
    /\ handles[1]["cb1"] = 1
    /\ "cb1" \in removed[1]
    /\ loggers[1].listeners = <<>>
    /\ Invoked(trace) = <<>>
    /\ Forwards(trace) # {}

\* The markers handleQueryEvents strips, and the parameters it leaves.
Markers == {"utm_campaign", "utm_source", "utm_medium", "signup", "signin"}
Kept == {"utm_term", "utm_content"}

\* No marker stands in the URL.
Stripped(url) == \A k \in Markers : searchParams(url)[k] = Undefined

\* The step is a page view of an EventLogger whose query-event handling
\* has not run yet, and the handling runs in it.
HandlesQueryEvents ==
    /\ call'.op \in {"logPageView", "logViewEvent"}
    /\ ~Suppressed
    /\ ~loggers[call'.logger].hasStrippedQueryParameters
    /\ ~raised'

\* C21: a page view in which the query-event handling runs leaves the page
\* URL without utm_campaign, utm_source, utm_medium, signup and signin and
\* with utm_term and utm_content as they were; on a URL that holds none of
\* the markers it leaves the URL as it is; and a page view made once the
\* handling of some EventLogger has run, or on any URL without markers,
\* forwards no UTM-mapped event.
MarkersStrippedOnce ==
    [][/\ HandlesQueryEvents
            => /\ Stripped(location')
               /\ \A k \in Kept : searchParams(location')[k] = searchParams(location)[k]
               /\ Stripped(location) => location' = location
               /\ loggers'[call'.logger].hasStrippedQueryParameters
       /\ (/\ call'.op \in {"logPageView", "logViewEvent"}
           /\ \/ \E i \in Loggers : loggers[i].hasStrippedQueryParameters
              \/ Stripped(location))
            => /\ UtmForwarded(trace') = <<>>
               /\ Stripped(location')
               /\ location' = location]_vars

\* The second page view of a page that was loaded with sign-up, campaign
\* source and term: the URL keeps only utm_term and the page view is all
\* the call forwards.
SecondPageViewSilent ==
    /\ call = [op |-> "logPageView", logger |-> 1, arg |-> "Search"]
    /\ location = "https://sg.test/search?utm_term=t"
    /\ loggers[1].hasStrippedQueryParameters
    /\ loggers[1].listeners = <<>>
    /\ Len(trace) = 2
    /\ trace[2].kind = "trackPageView"

\* The EventLoggers subscribed to the detection stream.
Observers == {stream.observers[n] : n \in 1 .. Len(stream.observers)}

\* C22: when reading the detail of the registration event throws, the
\* channel emits the sentinel payload if the browser is Firefox and the
\* error's message contains 'Permission denied to access property
\* "platform"': the sentinel becomes the replayed payload and every
\* subscribed EventLogger receives it.  In every other case the error ends
\* the detection stream: the stream is in error, its replay buffer and what
\* each EventLogger received are as before, and nothing is logged.
SentinelOnlyOnFirefox ==
    [][(call'.op = "registrationEvent" /\ call'.arg # "") =>
        IF firefox /\ Includes(call'.arg, PermissionDenied)
        THEN /\ stream'.buffer = <<Sentinel>>
             /\ stream'.status # "error"
             /\ ~raised'
             /\ \A i \in Loggers :
                   received'[i] = IF i \in Observers THEN Append(received[i], Sentinel)
                                  ELSE received[i]
        ELSE /\ stream'.status = "error"
             /\ raised'
             /\ stream'.buffer = stream.buffer
             /\ received' = received
             /\ trace' = <<>>]_vars

\* On Firefox the detail threw an error whose message contains the phrase,
\* and the singleton received the sentinel.
SentinelDelivered ==
    /\ call = [op |-> "registrationEvent", logger |-> 0,
               arg |-> "Error: " \o PermissionDenied]
    /\ firefox
    /\ stream.buffer = <<Sentinel>>
    /\ received[1] = <<Sentinel>>
    /\ Forwarded(trace, "BrowserExtensionConnectedToServer") # {}

\* EventLogger i has no anonymous id while the step's call makes its
\* emissions: it is being constructed by the call (initializeLogParameters
\* is the constructor's last statement), or it holds none.
Unresolved(i) ==
    \/ call'.op \in {"load", "construct"} /\ call'.logger = i
    \/ loggers[i].anonymousUserID = ""

\* C23 as stated: every emission of an EventLogger (session renewal,
\* listener notification, forwarding), the 'BrowserExtensionConnectedToServer'
\* emission of the constructor's subscription included, is made with the
\* anonymous id resolved, and no renewal writes an empty id to the
\* device-session cookie.
IdentityBeforeEmission ==
    [][\A n \in 1 .. Len(trace') :
         /\ trace'[n].kind \in {"renew", "listener", "trackAction", "trackPageView"}
              => ~Unresolved(trace'[n].logger)
         /\ trace'[n].kind = "renew" => Truthy(trace'[n].label)]_vars

\* A second EventLogger was constructed after the payload was detected
\* and the session cookie had expired: the replayed payload was logged by
\* the constructor's subscription before the identity was resolved, the
\* renewal wrote an empty id to the cookie, and the event was forwarded.
EmittedBeforeIdentity ==
    /\ call = [op |-> "construct", logger |-> 2, arg |-> ""]
    /\ Len(trace) >= 2
    /\ trace[1].kind = "renew"
    /\ trace[1].logger = 2
    /\ trace[1].label = ""
    /\ ~trace[1].arg.ok
    /\ Forwarded(trace, "BrowserExtensionConnectedToServer") # {}
    /\ loggers[2].anonymousUserID # ""

====
